---- MODULE Spec2Model ----
(***************************************************************************)
(* Session lifecycle and concurrency fabric of eng-server: the chess       *)
(* clock, the engine pool, the game session, the manager, the event        *)
(* publisher and the connection hub.                                       *)
(***************************************************************************)
EXTENDS Integers, Sequences, FiniteSets, Bags, TLC

\* ------------------------------------------------------------------ bounds
MaxNow == 3          \* time horizon, in clock milliseconds
MaxInit == 2         \* largest initial time per side fed to NewClock
MaxInc == 1          \* largest per-move increment fed to NewClock
MaxMoves == 2        \* cap on Clock.moveCount (number of full moves)
TickQueue == 1       \* modelled capacity of Clock.tickChan (10 in the source)
MaxStarts == 2       \* cap on the number of effective Clock.Start calls per clock
NumConns == 1        \* client connections that may be opened
MaxGames == 2        \* game sessions that may be created (fresh uuids)
NumEngines == 2      \* maxEngines handed to NewEnginePool (5 in main)
SendQueue == 2       \* modelled capacity of Connection.send (256 in the source)
MaxSubs == 2         \* subscriptions made through the publisher's API
MaxTasks == 2        \* handler goroutines of API-published events not yet returned
NumCallers == 2      \* goroutines that call a session's or a clock's methods
MaxPlies == 82       \* moves already played in a session that asks its engine
MaxPending == 1      \* cap on undelivered CLOCK_UPDATED handler tasks per game

\* ------------------------------------------------------ program constants
TimeupCap == 1       \* make(chan Color, 1)
BestMoveCap == 1     \* make(chan string, 1)

White == "w"
Black == "b"
Colors == {White, Black}

IncrementTiming == "increment"
DelayTiming == "delay"
BronsteinTiming == "bronstein"

Conns == 1..NumConns
Games == 1..MaxGames
Engines == 1..NumEngines

\* The clock instance driven through its API alone.
Clocks == {1}

NoClock == [isRunning |-> FALSE, absent |-> TRUE]
NoSession == [absent |-> TRUE]
NoConn == 0
NoGame == 0

\* GameStatus
StatusActive == "active"
StatusPending == "pending"
StatusCompleted == "completed"

\* EventType
EventGameCreated == "GAME_CREATED"
EventMoveProcessed == "MOVE_PROCESSED"
EventEngineMoved == "ENGINE_MOVED"
EventClockUpdated == "CLOCK_UPDATED"
EventTimeUp == "TIME_UP"
EventGameTerminated == "GAME_TERMINATED"
EventConnectionClosed == "CONNECTION_CLOSED"

\* What a Go runtime panic leaves behind: the process is gone.
NoPanic == "none"
PanicCloseDone == "close of closed channel: Game.done"
PanicCloseQuit == "close of closed channel: UCIEngine.quitChan"
PanicSendClosed == "send on closed channel: Connection.send"
PanicCloseAvailable == "close of closed channel: Pool.available"
PanicSendAvailable == "send on closed channel: Pool.available"

\* Color.Opp
Opp(c) == IF c = White THEN Black ELSE White


\* ------------------------------------------------------------------ clock
TimeControls ==
  [WhiteTime : 1..MaxInit, BlackTime : 1..MaxInit,
   WhiteIncrement : 0..MaxInc, BlackIncrement : 0..MaxInc,
   TimingMethod : {IncrementTiming, DelayTiming}]

\* NewClock
NewClock(tc) ==
  [whiteTimeMs |-> tc.WhiteTime, blackTimeMs |-> tc.BlackTime,
   whiteIncrement |-> tc.WhiteIncrement, blackIncrement |-> tc.BlackIncrement,
   activeColor |-> White, timingMethod |-> tc.TimingMethod,
   moveCount |-> 0, startTime |-> 0, isRunning |-> FALSE]

\* The non-blocking send of a time-up on the one-slot channel.
OfferTimeup(ch, color) == IF Len(ch) < TimeupCap THEN Append(ch, color) ELSE ch

\* Clock.updateTime: settles the elapsed time into the active side and flags.
\* Yields the new clock, the new timeup channel and whether a send happened.
updateTime(c, ch, t) ==
  LET elapsed == t - c.startTime
      c1 == IF c.activeColor = White
              THEN [c EXCEPT !.whiteTimeMs = @ - elapsed]
              ELSE [c EXCEPT !.blackTimeMs = @ - elapsed]
      flagged == \/ (c1.activeColor = White /\ c1.whiteTimeMs <= 0)
                 \/ (c1.activeColor = Black /\ c1.blackTimeMs <= 0)
      c2 == IF c1.activeColor = White
              THEN [c1 EXCEPT !.whiteTimeMs = 0, !.isRunning = FALSE]
              ELSE [c1 EXCEPT !.blackTimeMs = 0, !.isRunning = FALSE]
  IN IF flagged
       THEN [clk |-> c2, ch |-> OfferTimeup(ch, c1.activeColor),
             sent |-> Len(ch) < TimeupCap]
       ELSE [clk |-> c1, ch |-> ch, sent |-> FALSE]

\* The increment step of Clock.Switch (lines 122-128).
ApplyIncrement(c) ==
  IF c.timingMethod = IncrementTiming
    THEN IF c.activeColor = White
           THEN [c EXCEPT !.whiteTimeMs = @ + c.whiteIncrement]
           ELSE [c EXCEPT !.blackIncrement = @ + c.blackIncrement]
    ELSE c

\* Clock.Switch
Switch(c, ch, t) ==
  LET u == IF c.isRunning THEN updateTime(c, ch, t)
                          ELSE [clk |-> c, ch |-> ch, sent |-> FALSE]
      c1 == ApplyIncrement(u.clk)
      c2 == [c1 EXCEPT !.activeColor = Opp(@)]
      c3 == IF c2.activeColor = White THEN [c2 EXCEPT !.moveCount = @ + 1] ELSE c2
      c4 == IF c3.isRunning THEN [c3 EXCEPT !.startTime = t] ELSE c3
  IN [clk |-> c4, ch |-> u.ch, sent |-> u.sent]

\* Clock.Stop
Stop(c, ch, t) ==
  IF ~c.isRunning
    THEN [clk |-> c, ch |-> ch, sent |-> FALSE]
    ELSE LET u == updateTime(c, ch, t)
         IN [clk |-> [u.clk EXCEPT !.isRunning = FALSE], ch |-> u.ch, sent |-> u.sent]

\* The remaining times read without the floor at zero.
GetRemainingTimeRaw(c, t) ==
  LET elapsed == t - c.startTime
  IN [White |-> IF c.isRunning /\ c.activeColor = White
                  THEN c.whiteTimeMs - elapsed ELSE c.whiteTimeMs,
      Black |-> IF c.isRunning /\ c.activeColor # White
                  THEN c.blackTimeMs - elapsed ELSE c.blackTimeMs]

\* Clock.GetRemainingTime
GetRemainingTime(c, t) ==
  LET elapsed == t - c.startTime
      w0 == IF c.isRunning /\ c.activeColor = White
              THEN c.whiteTimeMs - elapsed ELSE c.whiteTimeMs
      b0 == IF c.isRunning /\ c.activeColor # White
              THEN c.blackTimeMs - elapsed ELSE c.blackTimeMs
  IN [White |-> IF w0 < 0 THEN 0 ELSE w0, Black |-> IF b0 < 0 THEN 0 ELSE b0]

\* Clock.IsTimeUp
IsTimeUp(c, color) ==
  IF color = White THEN c.whiteTimeMs <= 0 ELSE c.blackTimeMs <= 0

VARIABLES
  now,          \* the monotonic time source
  clock,        \* clock instance -> Clock fields
  timeupChan,   \* clock instance -> contents of timeupChan
  tickChan,     \* clock instance -> contents of tickChan
  tickers,      \* clock instance -> number of live tickRoutine goroutines
  timeupSent,   \* clock instance -> number of sends made on timeupChan
  starts,       \* clock instance -> number of Start calls that started the clock
  available,    \* Pool.available: the channel of available engine ids
  engine,       \* engine id -> UCIEngine state
  shut,         \* whether Pool.Shutdown has closed available and emptied engines
  games,        \* InMemoryGameRepository.games: the ids saved
  session,      \* game id -> Game fields
  nextGame,     \* the next fresh session uuid
  fwd,          \* game id -> the session's background goroutines
  tasks,        \* handler goroutines spawned by Publisher.Publish, not yet finished
  subscribers,  \* Publisher.subscribers: topic -> the handlers subscribed, in order
  mu,           \* session -> the caller that holds Game.mu, or Unlocked
  calls,        \* caller -> the method it runs and its position in it
  rw,           \* clock instance -> state of Clock.mutex
  tpc,          \* clock instance -> position of each tickRoutine started
  connections,  \* Hub.connections
  gameConnections, \* Hub.gameConnections
  connGames,    \* Hub.connGames
  send,         \* connection -> contents of Connection.send
  sendClosed,   \* connection -> whether Connection.send has been closed
  reader,       \* connection -> position of its ReadPump
  writer,       \* connection -> position of its WritePump
  hub,          \* position of the goroutine running Hub.Run
  panicked      \* the runtime panic that ended the process, if any

clockVars == <<now, clock, timeupChan, tickChan, tickers, timeupSent, starts>>
poolVars == <<available, engine, shut>>
sessVars == <<games, session, nextGame, fwd>>
hubVars == <<connections, gameConnections, connGames, send, sendClosed, reader, writer, hub>>
rwVars == <<rw, tpc>>
lockVars == <<mu, calls, rwVars>>
sysVars == <<poolVars, sessVars, hubVars, tasks, subscribers, lockVars, panicked>>
vars == <<clockVars, sysVars>>

\* Goroutines that call methods of one session concurrently.
Callers == 1..NumCallers
Unlocked == 0
NoCall == [op |-> "none", pc |-> "idle", game |-> 0, move |-> ""]

\* sync.RWMutex: w is the writer that holds the writers' mutex (it has
\* announced itself and waits for the readers, or holds the lock), r the
\* number of read locks held.
NewRWMutex == [w |-> Unlocked, r |-> 0]

\* A tickRoutine that has not been started, and the tick it has built last.
NoTickRoutine ==
  [pc |-> "none", tick |-> [White |-> 0, Black |-> 0, ActiveColor |-> White]]

InitLocks ==
  /\ mu = [g \in Games |-> Unlocked]
  /\ calls = [k \in Callers |-> NoCall]
  /\ rw = [k \in Clocks |-> NewRWMutex]
  /\ tpc = [k \in Clocks |-> [n \in 1..MaxStarts |-> NoTickRoutine]]

\* ------------------------------------------------- clock API, one instance
\* Clock.Start
ClockStart(k) ==
  /\ ~clock[k].isRunning
  /\ starts[k] < MaxStarts
  /\ clock' = [clock EXCEPT ![k].startTime = now, ![k].isRunning = TRUE]
  /\ tickers' = [tickers EXCEPT ![k] = @ + 1]
  /\ starts' = [starts EXCEPT ![k] = @ + 1]
  /\ UNCHANGED <<now, timeupChan, tickChan, timeupSent, sysVars>>

\* Clock.Stop
ClockStop(k) ==
  LET r == Stop(clock[k], timeupChan[k], now)
  IN /\ clock[k].isRunning
     /\ clock' = [clock EXCEPT ![k] = r.clk]
     /\ timeupChan' = [timeupChan EXCEPT ![k] = r.ch]
     /\ timeupSent' = [timeupSent EXCEPT ![k] = @ + (IF r.sent THEN 1 ELSE 0)]
     /\ UNCHANGED <<now, tickChan, tickers, starts, sysVars>>

\* Clock.Switch
ClockSwitch(k) ==
  LET r == Switch(clock[k], timeupChan[k], now)
  IN /\ clock[k].moveCount < MaxMoves
     /\ clock' = [clock EXCEPT ![k] = r.clk]
     /\ timeupChan' = [timeupChan EXCEPT ![k] = r.ch]
     /\ timeupSent' = [timeupSent EXCEPT ![k] = @ + (IF r.sent THEN 1 ELSE 0)]
     /\ UNCHANGED <<now, tickChan, tickers, starts, sysVars>>

\* One firing of a tickRoutine's 100 ms ticker.
TickerFire(k) ==
  /\ tickers[k] > 0
  /\ IF ~clock[k].isRunning
       THEN /\ tickers' = [tickers EXCEPT ![k] = @ - 1]
            /\ UNCHANGED tickChan
       ELSE LET times == GetRemainingTime(clock[k], now)
                tick == [White |-> times.White, Black |-> times.Black,
                         ActiveColor |-> clock[k].activeColor]
            IN /\ tickChan' = [tickChan EXCEPT ![k] =
                     IF Len(@) < TickQueue THEN Append(@, tick) ELSE @]
               /\ UNCHANGED tickers
  /\ UNCHANGED <<now, clock, timeupChan, timeupSent, starts, sysVars>>

\* A consumer receives from GetTimeupChannel().
RecvTimeup(k) ==
  /\ timeupChan[k] # <<>>
  /\ timeupChan' = [timeupChan EXCEPT ![k] = Tail(@)]
  /\ UNCHANGED <<now, clock, tickChan, tickers, timeupSent, starts, sysVars>>

\* A consumer receives from GetTickChannel().
RecvTick(k) ==
  /\ tickChan[k] # <<>>
  /\ tickChan' = [tickChan EXCEPT ![k] = Tail(@)]
  /\ UNCHANGED <<now, clock, timeupChan, tickers, timeupSent, starts, sysVars>>

\* The monotonic time source advances by one millisecond.
AdvanceTime ==
  /\ now < MaxNow
  /\ now' = now + 1
  /\ UNCHANGED <<clock, timeupChan, tickChan, tickers, timeupSent, starts, sysVars>>

\* ------------------------------------------------------------ engine pool
\* Pool.Initialize: every spawned engine's id is put on the available channel.
InitialAvailable == [i \in 1..NumEngines |-> i]

\* goSent holds the movestogo value of the last go command written to the
\* engine.
NewUCIEngine ==
  [quitClosed |-> FALSE, searching |-> FALSE, BestMoveChan |-> <<>>, goSent |-> <<>>]

\* A lease that reads the head of the channel and leaves the id on it.
GetEngineNoReceive(av) ==
  IF av # <<>>
    THEN [ok |-> TRUE, id |-> Head(av), available |-> av]
    ELSE [ok |-> FALSE, id |-> 0, available |-> av]

\* Pool.GetEngine: receive an id from the channel, or time out after 5 s.
GetEngine(av) ==
  IF av # <<>> /\ Head(av) \in Engines
    THEN [ok |-> TRUE, id |-> Head(av), available |-> Tail(av)]
    ELSE [ok |-> FALSE, id |-> 0, available |-> IF av = <<>> THEN av ELSE Tail(av)]

\* Pool.ReturnEngine: a known id is offered to the channel without blocking;
\* the channel holds maxEngines ids at most.
ReturnEngine(av, id) ==
  IF id \in Engines /\ Len(av) < NumEngines THEN Append(av, id) ELSE av

\* ------------------------------------------------------------- the session
\* The rules library (corentings/chess): the moves a client or engine may name.
\* "d8h4" stands for a move that mates.
Moves == {"e2e4", "zz99", "d8h4"}
LegalMove(m) == m \in {"e2e4", "d8h4"}
MatingMove(m) == m = "d8h4"

\* chess.Outcome
NoOutcome == "*"
Checkmate == "checkmate"

\* chess.Game.PushMove: a legal move is appended and the turn passes; an
\* illegal one, or any move in a finished game, is refused and leaves the
\* position as it was.
PushMove(s, m) ==
  IF LegalMove(m) /\ s.outcome = NoOutcome
    THEN [s EXCEPT !.moves = @ + 1, !.turn = Opp(@),
                   !.outcome = IF MatingMove(m) THEN Checkmate ELSE @]
    ELSE s

\* The moves the go command assumes per time control.
GoMovesPerControl == 40

\* A movestogo value that is kept at 1 or above.
MovesToGoClamped(m) ==
  IF GoMovesPerControl - (m \div 2) < 1 THEN 1 ELSE GoMovesPerControl - (m \div 2)

\* Game.ProcessEngineMove: the movestogo value of the go command, from the
\* number of moves played.
MovesToGo(m) == GoMovesPerControl - (m \div 2)

\* CreateGame
CreateGame(id, connectionId, eng) ==
  [ID |-> id, ConnectionID |-> connectionId, Engine |-> eng,
   Status |-> StatusPending, doneClosed |-> FALSE, moves |-> 0, turn |-> White,
   outcome |-> NoOutcome]

\* The time control Manager.CreateSession builds from a CREATE_SESSION payload.
SessionTimeControl ==
  [WhiteTime |-> MaxInit, BlackTime |-> MaxInit,
   WhiteIncrement |-> MaxInc, BlackIncrement |-> MaxInc,
   TimingMethod |-> IncrementTiming]

\* InMemoryGameRepository.SaveGame
SaveGame(gs, id) == gs \cup {id}

\* InMemoryGameRepository.GetGame: whether the id is found.
GetGame(gs, id) == id \in gs

\* InMemoryGameRepository.ListActiveGames
ListActiveGames(gs, ss) == {g \in gs : ss[g].Status = StatusActive}

\* ------------------------------------------------------------ the publisher
\* The handlers each component subscribes at construction.
HubEvents == {EventGameCreated, EventEngineMoved, EventClockUpdated, EventTimeUp}
ManagerEvents == {EventConnectionClosed, EventGameTerminated}

EventTypes ==
  {EventGameCreated, EventMoveProcessed, EventEngineMoved, EventClockUpdated,
   EventTimeUp, EventGameTerminated, EventConnectionClosed}

\* The topic SubscribeAll appends to.
Wildcard == "*"
Topics == EventTypes \cup {Wildcard}

\* The handlers of the hub and of the manager.
Handlers == {"hub", "manager"}

\* NewPublisher: no handler on any topic.
NewPublisher == [t \in Topics |-> <<>>]

\* The subscriptions made by NewHub and NewManager at construction.
Subscribed ==
  [t \in Topics |->
     IF t \in HubEvents THEN <<"hub">>
     ELSE IF t \in ManagerEvents THEN <<"manager">>
     ELSE <<>>]

\* Publisher.Subscribe
Subscribe(subs, type, h) == [subs EXCEPT ![type] = Append(@, h)]

\* Publisher.SubscribeAll
SubscribeAll(subs, h) == [subs EXCEPT ![Wildcard] = Append(@, h)]

\* The goroutine `go handler(event)` of one handler.
HandlerTask(type, h) ==
  [type |-> type, game |-> NoGame, conn |-> NoConn, pc |-> "run", handler |-> h]

\* `for _, handler := range handlers { go handler(event) }`
RECURSIVE Dispatch(_, _, _)
Dispatch(b, hs, type) ==
  IF hs = <<>> THEN b
  ELSE Dispatch(b (+) SetToBag({HandlerTask(type, Head(hs))}), Tail(hs), type)

\* Publisher.Publish over the subscriber lists `subs`: the handlers of the
\* event's own type are started.
PublishTo(b, subs, type) == Dispatch(b, subs[type], type)

Task(type, g, c) == [type |-> type, game |-> g, conn |-> c, pc |-> "run"]

\* Publisher.Publish: one goroutine per handler subscribed to the event's type.
Publish(b, type, g, c) ==
  IF type \in HubEvents \cup ManagerEvents
    THEN b (+) SetToBag({Task(type, g, c)})
    ELSE b

Finish(b, t) == b (-) SetToBag({t})

Frame(event, g) == [event |-> event, game |-> g]

\* The outbound event name a hub handler gives the frame.
FrameEvent(type) ==
  CASE type = EventGameCreated -> "GAME_CREATED"
    [] type = EventEngineMoved -> "ENGINE_MOVE"
    [] type = EventClockUpdated -> "CLOCK_UPDATE"
    [] type = EventTimeUp -> "TIME_UP"

Idle == [pc |-> "idle", conn |-> NoConn, game |-> NoGame, turn |-> White]

InitSys ==
  /\ available = InitialAvailable
  /\ engine = [e \in Engines |-> NewUCIEngine]
  /\ shut = FALSE
  /\ games = {}
  /\ session = [g \in Games |-> NoSession]
  /\ nextGame = 1
  /\ fwd = [g \in Games |-> [start |-> FALSE, tick |-> FALSE, timeout |-> FALSE]]
  /\ tasks = EmptyBag
  /\ subscribers = Subscribed
  /\ InitLocks
  /\ connections = {}
  /\ gameConnections = [g \in Games |-> NoConn]
  /\ connGames = [c \in Conns |-> <<>>]
  /\ send = [c \in Conns |-> <<>>]
  /\ sendClosed = [c \in Conns |-> FALSE]
  /\ reader = [c \in Conns |-> "none"]
  /\ writer = [c \in Conns |-> "none"]
  /\ hub = Idle
  /\ panicked = NoPanic

InitChannels ==
  /\ now = 0
  /\ timeupChan = [k \in Games |-> <<>>]
  /\ tickChan = [k \in Games |-> <<>>]
  /\ tickers = [k \in Games |-> 0]
  /\ timeupSent = [k \in Games |-> 0]
  /\ starts = [k \in Games |-> 0]

\* One clock built by NewClock, driven through its API.
InitClock ==
  /\ InitChannels
  /\ \E tc \in TimeControls :
       clock = [k \in Games |-> IF k \in Clocks THEN NewClock(tc) ELSE NoClock]
  /\ InitSys

NextClock ==
  \/ \E k \in Clocks : ClockStart(k)
  \/ \E k \in Clocks : ClockStop(k)
  \/ \E k \in Clocks : ClockSwitch(k)
  \/ \E k \in Clocks : TickerFire(k)
  \/ \E k \in Clocks : RecvTimeup(k)
  \/ \E k \in Clocks : RecvTick(k)
  \/ AdvanceTime

\* ------------------------------------------------------- session operations
Running == panicked = NoPanic

\* Game.ProcessMove: Clock.Switch, then PushMove (its error is dropped), then
\* MOVE_PROCESSED, which has no subscriber; the method returns nil.
ProcessMove(g, m) ==
  LET r == Switch(clock[g], timeupChan[g], now)
  IN /\ clock' = [clock EXCEPT ![g] = r.clk]
     /\ timeupChan' = [timeupChan EXCEPT ![g] = r.ch]
     /\ timeupSent' = [timeupSent EXCEPT ![g] = @ + (IF r.sent THEN 1 ELSE 0)]
     /\ session' = [session EXCEPT ![g] = PushMove(@, m)]

\* Game.Terminate, run with `base` the handler goroutines that remain:
\* close(done), Engine.Close() (close(quitChan), quit, Wait), GAME_TERMINATED.
Terminate(g, base) ==
  LET e == session[g].Engine
  IN IF session[g].doneClosed
       THEN /\ panicked' = PanicCloseDone
            /\ tasks' = base
            /\ UNCHANGED <<session, engine>>
       ELSE IF engine[e].quitClosed
         THEN /\ panicked' = PanicCloseQuit
              /\ session' = [session EXCEPT ![g].doneClosed = TRUE]
              /\ tasks' = base
              /\ UNCHANGED engine
         ELSE /\ session' = [session EXCEPT ![g].doneClosed = TRUE]
              /\ engine' = [engine EXCEPT ![e].quitClosed = TRUE, ![e].searching = FALSE]
              /\ tasks' = Publish(base, EventGameTerminated, g, NoConn)
              /\ UNCHANGED panicked

\* Manager.RemoveSession
RemoveSession(g, base) ==
  IF GetGame(games, g)
    THEN Terminate(g, base)
    ELSE /\ tasks' = base
         /\ UNCHANGED <<session, engine, panicked>>

\* A caller cancels the session through its one cancellation entry point.
DirectTerminate(g) ==
  /\ Running
  /\ g \in games
  /\ Terminate(g, tasks)
  /\ UNCHANGED <<subscribers, lockVars, clockVars, available, shut, games, nextGame, fwd, hubVars>>

\* The goroutines Manager.terminateSessionsByConnectionID starts.
TerminationTasks(connectionID) ==
  SetToBag({[type |-> "terminateSession", game |-> g, conn |-> NoConn, pc |-> "run"] :
              g \in {x \in ListActiveGames(games, session) :
                       session[x].ConnectionID = connectionID}})

\* A goroutine of the manager: the CONNECTION_CLOSED handler, the
\* GAME_TERMINATED handler, or a termination goroutine (Terminate, then
\* RemoveSession).
ManagerTask(t) ==
  /\ Running
  /\ BagIn(t, tasks)
  /\ t.type \in ManagerEvents \cup {"terminateSession"}
  /\ IF t.type = EventConnectionClosed
       THEN /\ tasks' = Finish(tasks, t) (+) TerminationTasks(t.conn)
            /\ UNCHANGED <<session, engine, panicked>>
       ELSE IF t.type = EventGameTerminated \/ t.pc = "remove"
         THEN RemoveSession(t.game, Finish(tasks, t))
         ELSE Terminate(t.game, Finish(tasks, t) (+) SetToBag({[t EXCEPT !.pc = "remove"]}))
  /\ UNCHANGED <<subscribers, lockVars, clockVars, available, shut, games, nextGame, fwd, hubVars>>

\* `go session.Clock.Start()` of Manager.CreateSession.
SessionClockStart(g) ==
  /\ Running
  /\ fwd[g].start
  /\ fwd' = [fwd EXCEPT ![g].start = FALSE]
  /\ IF clock[g].isRunning
       THEN UNCHANGED <<clock, tickers, starts>>
       ELSE /\ clock' = [clock EXCEPT ![g].startTime = now, ![g].isRunning = TRUE]
            /\ tickers' = [tickers EXCEPT ![g] = @ + 1]
            /\ starts' = [starts EXCEPT ![g] = @ + 1]
  /\ UNCHANGED <<subscribers, lockVars, now, timeupChan, tickChan, timeupSent, poolVars, games, session,
                 nextGame, hubVars, tasks, panicked>>

PendingClockUpdates(g) ==
  LET S == {t \in BagToSet(tasks) : t.type = EventClockUpdated /\ t.game = g}
  IN BagCardinality([t \in S |-> tasks[t]])

\* Game.StartClockUpdates: forward one tick as CLOCK_UPDATED.
ForwardTick(g) ==
  /\ Running
  /\ fwd[g].tick
  /\ tickChan[g] # <<>>
  /\ PendingClockUpdates(g) < MaxPending
  /\ tickChan' = [tickChan EXCEPT ![g] = Tail(@)]
  /\ tasks' = Publish(tasks, EventClockUpdated, g, NoConn)
  /\ UNCHANGED <<subscribers, lockVars, now, clock, timeupChan, tickers, timeupSent, starts, poolVars,
                 sessVars, hubVars, panicked>>

\* Game.StartTimeoutMonitor: forward one time-up as TIME_UP.
ForwardTimeup(g) ==
  /\ Running
  /\ fwd[g].timeout
  /\ timeupChan[g] # <<>>
  /\ timeupChan' = [timeupChan EXCEPT ![g] = Tail(@)]
  /\ tasks' = Publish(tasks, EventTimeUp, g, NoConn)
  /\ UNCHANGED <<subscribers, lockVars, now, clock, tickChan, tickers, timeupSent, starts, poolVars,
                 sessVars, hubVars, panicked>>

\* Only the tick forwarder selects on the done channel.
TickForwarderExit(g) ==
  /\ Running
  /\ g \in games
  /\ session[g].doneClosed
  /\ fwd[g].tick
  /\ fwd' = [fwd EXCEPT ![g].tick = FALSE]
  /\ UNCHANGED <<subscribers, lockVars, clockVars, poolVars, games, session, nextGame, hubVars, tasks, panicked>>

\* A forwarder takes the `<-s.done` case of its select and returns.
ForwarderExit(g) ==
  /\ Running
  /\ g \in games
  /\ session[g].doneClosed
  /\ \E which \in {"tick", "timeout"} :
       /\ fwd[g][which]
       /\ fwd' = [fwd EXCEPT ![g][which] = FALSE]
  /\ UNCHANGED <<subscribers, lockVars, clockVars, poolVars, games, session, nextGame, hubVars, tasks, panicked>>

\* ------------------------------------------------------ connection and hub
\* Connection.SendJSON: `c.send <- data`. It blocks while the queue is full
\* and panics when the queue has been closed.
SendJSON(c, f) ==
  IF sendClosed[c]
    THEN /\ panicked' = PanicSendClosed
         /\ UNCHANGED send
    ELSE /\ Len(send[c]) < SendQueue
         /\ send' = [send EXCEPT ![c] = Append(@, f)]
         /\ UNCHANGED panicked

\* An error answer that is enqueued twice.
sendErrorTwice(c) ==
  /\ ~sendClosed[c]
  /\ Len(send[c]) + 1 < SendQueue
  /\ send' = [send EXCEPT ![c] = @ \o <<Frame("ERROR", NoGame), Frame("ERROR", NoGame)>>]
  /\ UNCHANGED panicked

\* Hub.sendError
sendError(c) == SendJSON(c, Frame("ERROR", NoGame))

\* A registration that starts the pumps and sends no greeting.
ConnectSilently(c) ==
  /\ Running
  /\ reader[c] = "none"
  /\ hub.pc = "idle"
  /\ connections' = connections \cup {c}
  /\ reader' = [reader EXCEPT ![c] = "start"]
  /\ writer' = [writer EXCEPT ![c] = "run"]
  /\ UNCHANGED <<subscribers, lockVars, clockVars, poolVars, sessVars, tasks, gameConnections, connGames,
                 send, sendClosed, hub, panicked>>

\* handleWebSocket and Hub.registerConnection: the connection is registered,
\* CONNECTED is sent, and the two pumps are started.
Connect(c) ==
  /\ Running
  /\ reader[c] = "none"
  /\ hub.pc = "idle"
  /\ connections' = connections \cup {c}
  /\ SendJSON(c, Frame("CONNECTED", NoGame))
  /\ reader' = [reader EXCEPT ![c] = "start"]
  /\ writer' = [writer EXCEPT ![c] = "run"]
  /\ UNCHANGED <<subscribers, lockVars, clockVars, poolVars, sessVars, tasks, gameConnections, connGames,
                 sendClosed, hub>>

\* Connection.ReadPump before its loop: it publishes CONNECTION_CLOSED.
ReaderStart(c) ==
  /\ Running
  /\ reader[c] = "start"
  /\ reader' = [reader EXCEPT ![c] = "loop"]
  /\ tasks' = Publish(tasks, EventConnectionClosed, NoGame, c)
  /\ UNCHANGED <<subscribers, lockVars, clockVars, poolVars, sessVars, connections, gameConnections,
                 connGames, send, sendClosed, writer, hub, panicked>>

\* ReadMessage fails: the loop breaks and the deferred unregister is pending.
ReadError(c) ==
  /\ Running
  /\ reader[c] = "loop"
  /\ reader' = [reader EXCEPT ![c] = "unreg"]
  /\ UNCHANGED <<subscribers, lockVars, clockVars, poolVars, sessVars, tasks, connections, gameConnections,
                 connGames, send, sendClosed, writer, hub, panicked>>

Range(q) == {q[i] : i \in 1..Len(q)}

\* An unregister that leaves the game-id side as it is.
keepGameAssociations(c) == gameConnections

\* Hub.removeGameAssociations, the game-id side.
removeGameAssociations(c) ==
  [g \in Games |-> IF g \in Range(connGames[c]) THEN NoConn ELSE gameConnections[g]]

\* Hub.unregisterConnection, taken from the unregister channel.
HubUnregister(c) ==
  /\ Running
  /\ reader[c] = "unreg"
  /\ hub.pc = "idle"
  /\ reader' = [reader EXCEPT ![c] = "done"]
  /\ gameConnections' = removeGameAssociations(c)
  /\ connGames' = [connGames EXCEPT ![c] = <<>>]
  /\ IF c \in connections
       THEN /\ connections' = connections \ {c}
            /\ sendClosed' = [sendClosed EXCEPT ![c] = TRUE]
            /\ tasks' = Publish(tasks, EventConnectionClosed, NoGame, c)
       ELSE UNCHANGED <<connections, sendClosed, tasks>>
  /\ UNCHANGED <<subscribers, lockVars, clockVars, poolVars, sessVars, send, writer, hub, panicked>>

\* Connection.WritePump: one frame is taken from the queue and written.
WriterStep(c) ==
  /\ Running
  /\ writer[c] = "run"
  /\ send[c] # <<>>
  /\ send' = [send EXCEPT ![c] = Tail(@)]
  /\ UNCHANGED <<subscribers, lockVars, clockVars, poolVars, sessVars, tasks, connections, gameConnections,
                 connGames, sendClosed, reader, writer, hub, panicked>>

\* Connection.WritePump returns: the queue is closed and drained, or the
\* write of the frame it took failed.
WriterExit(c) ==
  /\ Running
  /\ writer[c] = "run"
  /\ IF send[c] = <<>>
       THEN sendClosed[c] /\ UNCHANGED send
       ELSE send' = [send EXCEPT ![c] = Tail(@)]
  /\ writer' = [writer EXCEPT ![c] = "exited"]
  /\ UNCHANGED <<subscribers, lockVars, clockVars, poolVars, sessVars, tasks, connections, gameConnections,
                 connGames, sendClosed, reader, hub, panicked>>

\* Hub.handleInbound, CREATE_SESSION up to the return of Manager.CreateSession.
HubCreateSession(c) ==
  LET r == GetEngine(available)
      id == nextGame
  IN /\ Running
     /\ reader[c] = "loop"
     /\ hub.pc = "idle"
     /\ r.ok => nextGame <= MaxGames
     /\ available' = r.available
     /\ IF r.ok
          THEN /\ session' = [session EXCEPT ![id] = CreateGame(id, c, r.id)]
               /\ clock' = [clock EXCEPT ![id] = NewClock(SessionTimeControl)]
               /\ games' = SaveGame(games, id)
               /\ nextGame' = nextGame + 1
               /\ fwd' = [fwd EXCEPT ![id] = [start |-> TRUE, tick |-> TRUE, timeout |-> TRUE]]
               /\ tasks' = Publish(tasks, EventGameCreated, id, NoConn)
               /\ hub' = [pc |-> "associate", conn |-> c, game |-> id, turn |-> White]
               /\ UNCHANGED <<send, panicked>>
          ELSE /\ sendError(c)
               /\ UNCHANGED <<session, clock, games, nextGame, fwd, tasks, hub>>
     /\ UNCHANGED <<subscribers, lockVars, now, timeupChan, tickChan, tickers, timeupSent, starts, engine, shut,
                    connections, gameConnections, connGames, sendClosed, reader, writer>>

\* Hub.associateConnectionWithGame, the rest of the CREATE_SESSION case.
HubAssociate ==
  /\ Running
  /\ hub.pc = "associate"
  /\ gameConnections' = [gameConnections EXCEPT ![hub.game] = hub.conn]
  /\ connGames' = [connGames EXCEPT ![hub.conn] = Append(@, hub.game)]
  /\ hub' = Idle
  /\ UNCHANGED <<subscribers, lockVars, clockVars, poolVars, sessVars, tasks, connections, send, sendClosed,
                 reader, writer, panicked>>

\* Hub.handleInbound, MAKE_MOVE up to the return of ProcessMove. Game id 0
\* stands for an id that does not parse.
HubMakeMove(c, g, m) ==
  /\ Running
  /\ reader[c] = "loop"
  /\ hub.pc = "idle"
  /\ IF GetGame(games, g)
       THEN /\ clock[g].moveCount < MaxMoves
            /\ ProcessMove(g, m)
            /\ hub' = [pc |-> "engine", conn |-> c, game |-> g, turn |-> White]
            /\ UNCHANGED <<send, panicked>>
       ELSE /\ sendError(c)
            /\ UNCHANGED <<clock, timeupChan, timeupSent, session, hub>>
  /\ UNCHANGED <<subscribers, lockVars, now, tickChan, tickers, starts, poolVars, games, nextGame, fwd, tasks,
                 connections, gameConnections, connGames, sendClosed, reader, writer>>

\* Hub.handleInbound: an unknown event name, or a payload that does not decode.
HubBadFrame(c) ==
  /\ Running
  /\ reader[c] = "loop"
  /\ hub.pc = "idle"
  /\ sendError(c)
  /\ UNCHANGED <<subscribers, lockVars, clockVars, poolVars, sessVars, tasks, connections, gameConnections,
                 connGames, sendClosed, reader, writer, hub>>

\* Hub.handleInbound answers with sendError while the connection's queue is
\* full: the hub goroutine blocks in `c.send <- data`.
HubErrorBlocks(c) ==
  /\ Running
  /\ reader[c] = "loop"
  /\ hub.pc = "idle"
  /\ ~sendClosed[c]
  /\ Len(send[c]) = SendQueue
  /\ hub' = [pc |-> "send", conn |-> c, game |-> NoGame, turn |-> White]
  /\ UNCHANGED <<subscribers, lockVars, clockVars, poolVars, sessVars, tasks, connections, gameConnections,
                 connGames, send, sendClosed, reader, writer, panicked>>

\* The blocked send of the hub completes once the queue has room.
HubSendResumes ==
  /\ Running
  /\ hub.pc = "send"
  /\ sendError(hub.conn)
  /\ hub' = Idle
  /\ UNCHANGED <<subscribers, lockVars, clockVars, poolVars, sessVars, tasks, connections, gameConnections,
                 connGames, sendClosed, reader, writer>>

\* Connection.WritePump takes a frame and its WriteMessage never returns:
\* the peer has stopped reading and no write deadline is set.
WriterStall(c) ==
  /\ Running
  /\ writer[c] = "run"
  /\ send[c] # <<>>
  /\ send' = [send EXCEPT ![c] = Tail(@)]
  /\ writer' = [writer EXCEPT ![c] = "stalled"]
  /\ UNCHANGED <<subscribers, lockVars, clockVars, poolVars, sessVars, tasks, connections, gameConnections,
                 connGames, sendClosed, reader, hub, panicked>>

\* Game.ProcessEngineMove up to the wait: the snapshot and the two commands.
\* Writing to an engine that has quit fails and the method returns.
HubEngineGo ==
  LET e == session[hub.game].Engine
  IN /\ Running
     /\ hub.pc = "engine"
     /\ IF engine[e].quitClosed
          THEN /\ hub' = Idle
               /\ UNCHANGED engine
          ELSE /\ hub' = [hub EXCEPT !.pc = "wait", !.turn = session[hub.game].turn]
               /\ engine' = [engine EXCEPT ![e].searching = TRUE,
                                           ![e].goSent = <<MovesToGo(session[hub.game].moves)>>]
     /\ UNCHANGED <<subscribers, lockVars, clockVars, available, shut, sessVars, tasks, connections, gameConnections,
                    connGames, send, sendClosed, reader, writer, panicked>>

\* UCIEngine.readLoop: the engine prints a bestmove line and it is offered to
\* the one-slot BestMoveChan without blocking.
EngineBestMove(e, m) ==
  /\ Running
  /\ engine[e].searching
  /\ engine' = [engine EXCEPT ![e].searching = FALSE,
                              ![e].BestMoveChan = IF Len(@) < BestMoveCap THEN Append(@, m) ELSE @]
  /\ UNCHANGED <<subscribers, lockVars, clockVars, available, shut, sessVars, tasks, hubVars, panicked>>

\* UCIEngine.readLoop returns without a bestmove: reading the engine's
\* output failed (the engine closed its stdout).
EngineReadError(e) ==
  /\ Running
  /\ engine[e].searching
  /\ engine' = [engine EXCEPT ![e].searching = FALSE]
  /\ UNCHANGED <<subscribers, lockVars, clockVars, available, shut, sessVars, tasks, hubVars, panicked>>

\* Game.ProcessEngineMove from the receive on: ProcessMove(bestMove), then
\* ENGINE_MOVED with the turn snapshotted before the commands.
HubEngineBest ==
  LET g == hub.game
      e == session[g].Engine
  IN /\ Running
     /\ hub.pc = "wait"
     /\ engine[e].BestMoveChan # <<>>
     /\ engine' = [engine EXCEPT ![e].BestMoveChan = Tail(@)]
     /\ ProcessMove(g, Head(engine[e].BestMoveChan))
     /\ tasks' = Publish(tasks, EventEngineMoved, g, NoConn)
     /\ hub' = Idle
     /\ UNCHANGED <<subscribers, lockVars, now, tickChan, tickers, starts, available, shut, games, nextGame, fwd,
                    connections, gameConnections, connGames, send, sendClosed, reader,
                    writer, panicked>>

\* A hub event handler up to the return of findConnectionForGame.
HandlerLookup(t) ==
  /\ Running
  /\ BagIn(t, tasks)
  /\ t.type \in HubEvents
  /\ t.pc = "run"
  /\ tasks' = IF gameConnections[t.game] = NoConn
                THEN Finish(tasks, t)
                ELSE Finish(tasks, t) (+)
                     SetToBag({[t EXCEPT !.pc = "send", !.conn = gameConnections[t.game]]})
  /\ UNCHANGED <<subscribers, lockVars, clockVars, poolVars, sessVars, hubVars, panicked>>

\* A hub event handler's Hub.sendMessage to the connection it looked up.
HandlerSend(t) ==
  /\ Running
  /\ BagIn(t, tasks)
  /\ t.type \in HubEvents
  /\ t.pc = "send"
  /\ SendJSON(t.conn, Frame(FrameEvent(t.type), t.game))
  /\ tasks' = Finish(tasks, t)
  /\ UNCHANGED <<subscribers, lockVars, clockVars, poolVars, sessVars, connections, gameConnections, connGames,
                 sendClosed, reader, writer, hub>>

\* ------------------------------------------------------------- the program
\* The state after main has built the publisher, the repository, the pool,
\* the manager and the hub.
Init ==
  /\ InitChannels
  /\ clock = [k \in Games |-> NoClock]
  /\ InitSys

\* Connections, sessions and their teardown.
Next ==
  \/ \E c \in Conns : Connect(c)
  \/ \E c \in Conns : ReaderStart(c)
  \/ \E c \in Conns : ReadError(c)
  \/ \E c \in Conns : HubUnregister(c)
  \/ \E c \in Conns : WriterStep(c)
  \/ \E c \in Conns : WriterExit(c)
  \/ \E c \in Conns : HubCreateSession(c)
  \/ HubAssociate
  \/ \E c \in Conns : HubBadFrame(c)
  \/ \E t \in BagToSet(tasks) : HandlerLookup(t)
  \/ \E t \in BagToSet(tasks) : HandlerSend(t)
  \/ \E t \in BagToSet(tasks) : ManagerTask(t)
  \/ \E g \in Games : DirectTerminate(g)

Spec == Init /\ [][Next]_vars

\* The goroutines of the program are scheduled: a handler, the hub or a pump
\* that can take a step eventually takes it. Clients and callers are free.
FairSpec ==
  /\ Spec
  /\ \A c \in Conns : WF_vars(ReaderStart(c))
  /\ \A c \in Conns : WF_vars(HubUnregister(c))
  /\ \A c \in Conns : WF_vars(WriterStep(c))
  /\ WF_vars(HubAssociate)
  /\ WF_vars(\E t \in BagToSet(tasks) : HandlerLookup(t))
  /\ WF_vars(\E t \in BagToSet(tasks) : HandlerSend(t))
  /\ WF_vars(\E t \in BagToSet(tasks) : ManagerTask(t))

\* The state after one client has connected and its CREATE_SESSION has been
\* served: Connect, ReaderStart, HubCreateSession, HubAssociate, and the
\* handlers and the write pump run to completion.
ServedAfter(n) ==
  /\ available = Tail(InitialAvailable)
  /\ engine = [e \in Engines |-> NewUCIEngine]
  /\ shut = FALSE
  /\ games = {1}
  /\ session = [g \in Games |->
                  IF g = 1
                    THEN [CreateGame(1, 1, Head(InitialAvailable)) EXCEPT
                            !.moves = n, !.turn = IF n % 2 = 0 THEN White ELSE Black]
                    ELSE NoSession]
  /\ nextGame = 2
  /\ fwd = [g \in Games |-> [start |-> g = 1, tick |-> g = 1, timeout |-> g = 1]]
  /\ tasks = EmptyBag
  /\ subscribers = Subscribed
  /\ InitLocks
  /\ connections = {1}
  /\ gameConnections = [g \in Games |-> IF g = 1 THEN 1 ELSE NoConn]
  /\ connGames = [c \in Conns |-> IF c = 1 THEN <<1>> ELSE <<>>]
  /\ send = [c \in Conns |-> <<>>]
  /\ sendClosed = [c \in Conns |-> FALSE]
  /\ reader = [c \in Conns |-> IF c = 1 THEN "loop" ELSE "none"]
  /\ writer = [c \in Conns |-> IF c = 1 THEN "run" ELSE "none"]
  /\ hub = Idle
  /\ panicked = NoPanic
  /\ clock = [g \in Games |-> IF g = 1 THEN NewClock(SessionTimeControl) ELSE NoClock]

\* The session as Manager.CreateSession returns it.
SessionServed == ServedAfter(0)

InitMoves ==
  /\ InitChannels
  /\ SessionServed

NextMoves ==
  \/ \E c \in Conns : WriterStep(c)
  \/ \E c \in Conns, g \in Games \cup {NoGame}, m \in Moves : HubMakeMove(c, g, m)
  \/ HubEngineGo
  \/ \E e \in Engines, m \in Moves : EngineBestMove(e, m)
  \/ HubEngineBest
  \/ \E t \in BagToSet(tasks) : HandlerLookup(t)
  \/ \E t \in BagToSet(tasks) : HandlerSend(t)
  \/ \E g \in Games : SessionClockStart(g)
  \/ \E g \in Games : ForwardTimeup(g)
  \/ Running /\ AdvanceTime

SpecMoves == InitMoves /\ [][NextMoves]_vars

SpecClock == InitClock /\ [][NextClock]_vars

\* ------------------------------------------ the clock's methods, callers
ClockOps == {"Start", "Stop", "Switch"}
CallsOf(k, op) == {c \in Callers : calls[c].op = op /\ calls[c].game = k}

\* A goroutine calls Clock.Start, Clock.Stop or Clock.Switch.
CallClock(c, k, op) ==
  /\ calls[c] = NoCall
  /\ op = "Start" => starts[k] + Cardinality(CallsOf(k, "Start")) < MaxStarts
  /\ op = "Switch" => clock[k].moveCount + Cardinality(CallsOf(k, "Switch")) < MaxMoves
  /\ calls' = [calls EXCEPT ![c] = [op |-> op, pc |-> "lock", game |-> k, move |-> ""]]
  /\ UNCHANGED <<clockVars, poolVars, sessVars, hubVars, tasks, subscribers, mu, rwVars, panicked>>

\* RWMutex.Lock: the writer takes the writers' mutex and announces itself;
\* from now on RLock blocks.
WriterAnnounce(c) ==
  LET k == calls[c].game
  IN /\ calls[c].op \in ClockOps
     /\ calls[c].pc = "lock"
     /\ rw[k].w = Unlocked
     /\ rw' = [rw EXCEPT ![k].w = c]
     /\ calls' = [calls EXCEPT ![c].pc = "announced"]
     /\ UNCHANGED <<clockVars, poolVars, sessVars, hubVars, tasks, subscribers, mu, tpc, panicked>>

\* RWMutex.Lock returns once the read locks held at the announcement are
\* released.
WriterAcquire(c) ==
  LET k == calls[c].game
  IN /\ calls[c].op \in ClockOps
     /\ calls[c].pc = "announced"
     /\ rw[k].r = 0
     /\ calls' = [calls EXCEPT ![c].pc = "locked"]
     /\ UNCHANGED <<clockVars, poolVars, sessVars, hubVars, tasks, subscribers, mu, rwVars, panicked>>

\* Clock.Start, Clock.Stop or Clock.Switch under the write lock, and the
\* deferred Unlock.
WriterBody(c) ==
  LET k == calls[c].game
      op == calls[c].op
      r == IF op = "Stop" THEN Stop(clock[k], timeupChan[k], now)
                          ELSE Switch(clock[k], timeupChan[k], now)
      n == starts[k] + 1
  IN /\ op \in ClockOps
     /\ calls[c].pc = "locked"
     /\ IF op = "Start"
          THEN IF clock[k].isRunning
                 THEN UNCHANGED <<clock, tickers, starts, tpc, timeupChan, timeupSent>>
                 ELSE /\ clock' = [clock EXCEPT ![k].startTime = now, ![k].isRunning = TRUE]
                      /\ tickers' = [tickers EXCEPT ![k] = @ + 1]
                      /\ starts' = [starts EXCEPT ![k] = n]
                      /\ tpc' = [tpc EXCEPT ![k][n].pc = "sleep"]
                      /\ UNCHANGED <<timeupChan, timeupSent>>
          ELSE IF op = "Stop" /\ ~clock[k].isRunning
                 THEN UNCHANGED <<clock, tickers, starts, tpc, timeupChan, timeupSent>>
                 ELSE /\ clock' = [clock EXCEPT ![k] = r.clk]
                      /\ timeupChan' = [timeupChan EXCEPT ![k] = r.ch]
                      /\ timeupSent' = [timeupSent EXCEPT ![k] = @ + (IF r.sent THEN 1 ELSE 0)]
                      /\ UNCHANGED <<tickers, starts, tpc>>
     /\ rw' = [rw EXCEPT ![k].w = Unlocked]
     /\ calls' = [calls EXCEPT ![c] = NoCall]
     /\ UNCHANGED <<now, tickChan, poolVars, sessVars, hubVars, tasks, subscribers, mu, panicked>>

\* RWMutex.RLock returns at once unless a writer has announced itself.
RLockReady(k) == rw[k].w = Unlocked

\* tickRoutine: the ticker fires and c.mutex.RLock() returns.
TickRLock(k, n) ==
  /\ tpc[k][n].pc = "sleep"
  /\ RLockReady(k)
  /\ rw' = [rw EXCEPT ![k].r = @ + 1]
  /\ tpc' = [tpc EXCEPT ![k][n].pc = "outer"]
  /\ UNCHANGED <<clockVars, poolVars, sessVars, hubVars, tasks, subscribers, mu, calls, panicked>>

\* tickRoutine finds the clock stopped: RUnlock and return.
TickExit(k, n) ==
  /\ tpc[k][n].pc = "outer"
  /\ ~clock[k].isRunning
  /\ rw' = [rw EXCEPT ![k].r = @ - 1]
  /\ tpc' = [tpc EXCEPT ![k][n].pc = "done"]
  /\ tickers' = [tickers EXCEPT ![k] = @ - 1]
  /\ UNCHANGED <<now, clock, timeupChan, tickChan, timeupSent, starts, poolVars, sessVars,
                 hubVars, tasks, subscribers, mu, calls, panicked>>

\* tickRoutine calls GetRemainingTime while it holds its read lock:
\* c.mutex.RLock() a second time.
TickInnerRLock(k, n) ==
  /\ tpc[k][n].pc = "outer"
  /\ clock[k].isRunning
  /\ RLockReady(k)
  /\ rw' = [rw EXCEPT ![k].r = @ + 1]
  /\ tpc' = [tpc EXCEPT ![k][n].pc = "inner"]
  /\ UNCHANGED <<clockVars, poolVars, sessVars, hubVars, tasks, subscribers, mu, calls, panicked>>

\* GetRemainingTime returns (deferred RUnlock), tickRoutine builds the tick
\* and releases its own read lock.
TickBuild(k, n) ==
  LET times == GetRemainingTime(clock[k], now)
      tick == [White |-> times.White, Black |-> times.Black,
               ActiveColor |-> clock[k].activeColor]
  IN /\ tpc[k][n].pc = "inner"
     /\ rw' = [rw EXCEPT ![k].r = @ - 2]
     /\ tpc' = [tpc EXCEPT ![k][n] = [pc |-> "send", tick |-> tick]]
     /\ UNCHANGED <<clockVars, poolVars, sessVars, hubVars, tasks, subscribers, mu, calls,
                    panicked>>

\* tickRoutine, after RUnlock: the tick is offered to tickChan without
\* blocking.
TickSend(k, n) ==
  /\ tpc[k][n].pc = "send"
  /\ tpc' = [tpc EXCEPT ![k][n] = [NoTickRoutine EXCEPT !.pc = "sleep"]]
  /\ tickChan' = [tickChan EXCEPT ![k] =
                    IF Len(@) < TickQueue THEN Append(@, tpc[k][n].tick) ELSE @]
  /\ UNCHANGED <<now, clock, timeupChan, tickers, timeupSent, starts, poolVars, sessVars,
                 hubVars, tasks, subscribers, mu, calls, rw, panicked>>

\* One clock whose methods are called by concurrent goroutines while its
\* tickRoutines run.
NextRW ==
  \/ \E c \in Callers, k \in Clocks, op \in ClockOps : CallClock(c, k, op)
  \/ \E c \in Callers : WriterAnnounce(c)
  \/ \E c \in Callers : WriterAcquire(c)
  \/ \E c \in Callers : WriterBody(c)
  \/ \E k \in Clocks, n \in 1..MaxStarts : TickRLock(k, n)
  \/ \E k \in Clocks, n \in 1..MaxStarts : TickExit(k, n)
  \/ \E k \in Clocks, n \in 1..MaxStarts : TickInnerRLock(k, n)
  \/ \E k \in Clocks, n \in 1..MaxStarts : TickBuild(k, n)
  \/ \E k \in Clocks, n \in 1..MaxStarts : TickSend(k, n)

SpecRW == InitClock /\ [][NextRW]_vars

\* ------------------------------------------- the session's methods, callers
\* A goroutine calls Game.ProcessMove.
CallProcessMove(k, g, m) ==
  /\ Running
  /\ calls[k] = NoCall
  /\ g \in games
  /\ clock[g].moveCount < MaxMoves
  /\ calls' = [calls EXCEPT ![k] = [op |-> "ProcessMove", pc |-> "lock", game |-> g, move |-> m]]
  /\ UNCHANGED <<clockVars, poolVars, sessVars, hubVars, tasks, subscribers, mu, rwVars, panicked>>

\* Game.ProcessMove: s.mu.Lock().
MoveLock(k) ==
  /\ Running
  /\ calls[k].pc = "lock"
  /\ mu[calls[k].game] = Unlocked
  /\ mu' = [mu EXCEPT ![calls[k].game] = k]
  /\ calls' = [calls EXCEPT ![k].pc = "locked"]
  /\ UNCHANGED <<clockVars, poolVars, sessVars, hubVars, tasks, subscribers, rwVars, panicked>>

\* Game.ProcessMove under the mutex, and its deferred Unlock; called from
\* ProcessEngineMove, ENGINE_MOVED is published after it returns.
MoveBody(k) ==
  LET g == calls[k].game
  IN /\ Running
     /\ calls[k].pc = "locked"
     /\ ProcessMove(g, calls[k].move)
     /\ mu' = [mu EXCEPT ![g] = Unlocked]
     /\ tasks' = IF calls[k].op = "ProcessEngineMove"
                   THEN Publish(tasks, EventEngineMoved, g, NoConn) ELSE tasks
     /\ calls' = [calls EXCEPT ![k] = NoCall]
     /\ UNCHANGED <<now, tickChan, tickers, starts, poolVars, games, nextGame, fwd, hubVars,
                    subscribers, rwVars, panicked>>

\* A goroutine calls Game.ProcessEngineMove.
CallProcessEngineMove(k, g) ==
  /\ Running
  /\ calls[k] = NoCall
  /\ g \in games
  /\ clock[g].moveCount < MaxMoves
  /\ calls' = [calls EXCEPT ![k] = [op |-> "ProcessEngineMove", pc |-> "snapshot",
                                     game |-> g, move |-> ""]]
  /\ UNCHANGED <<clockVars, poolVars, sessVars, hubVars, tasks, subscribers, mu, rwVars, panicked>>

\* Game.ProcessEngineMove: s.mu.Lock() before the snapshot.
SnapshotLock(k) ==
  /\ Running
  /\ calls[k].pc = "snapshot"
  /\ mu[calls[k].game] = Unlocked
  /\ mu' = [mu EXCEPT ![calls[k].game] = k]
  /\ calls' = [calls EXCEPT ![k].pc = "snapshotted"]
  /\ UNCHANGED <<clockVars, poolVars, sessVars, hubVars, tasks, subscribers, rwVars, panicked>>

\* A snapshot whose Unlock is deferred to the return of the method.
UnlockDeferred(k) == k

\* Game.ProcessEngineMove: s.mu.Unlock() after the snapshot.
UnlockAfterSnapshot(k) == Unlocked

\* Game.ProcessEngineMove from the snapshot to the wait: the mutex is
\* released, then the position and go commands are sent; a failed SendCommand
\* returns.
SnapshotCommands(k) ==
  LET g == calls[k].game
      e == session[g].Engine
  IN /\ Running
     /\ calls[k].pc = "snapshotted"
     /\ IF engine[e].quitClosed
          THEN /\ mu' = [mu EXCEPT ![g] = Unlocked]
               /\ calls' = [calls EXCEPT ![k] = NoCall]
               /\ UNCHANGED engine
          ELSE /\ mu' = [mu EXCEPT ![g] = UnlockAfterSnapshot(k)]
               /\ calls' = [calls EXCEPT ![k].pc = "wait"]
               /\ engine' = [engine EXCEPT ![e].searching = TRUE,
                                           ![e].goSent = <<MovesToGo(session[g].moves)>>]
     /\ UNCHANGED <<clockVars, available, shut, sessVars, hubVars, tasks, subscribers, rwVars, panicked>>

\* Game.ProcessEngineMove: bestMove := <-s.Engine.BestMoveChan, then the call
\* of ProcessMove.
BestMoveReceived(k) ==
  LET e == session[calls[k].game].Engine
  IN /\ Running
     /\ calls[k].pc = "wait"
     /\ engine[e].BestMoveChan # <<>>
     /\ engine' = [engine EXCEPT ![e].BestMoveChan = Tail(@)]
     /\ calls' = [calls EXCEPT ![k].pc = "lock", ![k].move = Head(engine[e].BestMoveChan)]
     /\ UNCHANGED <<clockVars, available, shut, sessVars, hubVars, tasks, subscribers, mu, rwVars, panicked>>

\* One served session whose methods are called by concurrent goroutines, with
\* an engine that may answer.
NextMutex ==
  \/ \E k \in Callers, g \in Games, m \in Moves : CallProcessMove(k, g, m)
  \/ \E k \in Callers : MoveLock(k)
  \/ \E k \in Callers : MoveBody(k)
  \/ \E k \in Callers, g \in Games : CallProcessEngineMove(k, g)
  \/ \E k \in Callers : SnapshotLock(k)
  \/ \E k \in Callers : SnapshotCommands(k)
  \/ \E k \in Callers : BestMoveReceived(k)
  \/ \E e \in Engines, m \in Moves : EngineBestMove(e, m)

\* sync.Mutex hands the lock to a waiting goroutine; a goroutine that can run
\* does run.
FairMutex ==
  /\ InitMoves /\ [][NextMutex]_vars
  /\ \A k \in Callers :
       /\ WF_vars(MoveLock(k))
       /\ WF_vars(MoveBody(k))
       /\ WF_vars(SnapshotLock(k))
       /\ WF_vars(SnapshotCommands(k))


\* A served session whose client makes moves and may disconnect, with an
\* engine that answers or whose output ends.
NextThink ==
  \/ \E c \in Conns, g \in Games \cup {NoGame}, m \in Moves : HubMakeMove(c, g, m)
  \/ \E c \in Conns : HubBadFrame(c)
  \/ HubEngineGo
  \/ \E e \in Engines, m \in Moves : EngineBestMove(e, m)
  \/ \E e \in Engines : EngineReadError(e)
  \/ HubEngineBest
  \/ \E c \in Conns : ReadError(c)
  \/ \E c \in Conns : HubUnregister(c)
  \/ \E c \in Conns : WriterStep(c)
  \/ \E t \in BagToSet(tasks) : HandlerLookup(t)
  \/ \E t \in BagToSet(tasks) : HandlerSend(t)
  \/ \E t \in BagToSet(tasks) : ManagerTask(t)

\* The hub, the handlers, the write pump and a running engine take the
\* steps they can take; clients are free.
FairThink ==
  /\ InitMoves /\ [][NextThink]_vars
  /\ WF_vars(HubEngineGo)
  /\ WF_vars(HubEngineBest)
  /\ WF_vars(\E e \in Engines, m \in Moves : EngineBestMove(e, m))
  /\ \A c \in Conns : WF_vars(HubUnregister(c))
  /\ \A c \in Conns : WF_vars(WriterStep(c))
  /\ WF_vars(\E t \in BagToSet(tasks) : HandlerLookup(t))
  /\ WF_vars(\E t \in BagToSet(tasks) : HandlerSend(t))
  /\ WF_vars(\E t \in BagToSet(tasks) : ManagerTask(t))

\* A publisher on its own: callers subscribe handlers, publish events, and the
\* handler goroutines return.
InitPublisher ==
  /\ InitChannels
  /\ clock = [k \in Games |-> NoClock]
  /\ available = InitialAvailable
  /\ engine = [e \in Engines |-> NewUCIEngine]
  /\ shut = FALSE
  /\ games = {}
  /\ session = [g \in Games |-> NoSession]
  /\ nextGame = 1
  /\ fwd = [g \in Games |-> [start |-> FALSE, tick |-> FALSE, timeout |-> FALSE]]
  /\ tasks = EmptyBag
  /\ subscribers = NewPublisher
  /\ InitLocks
  /\ connections = {}
  /\ gameConnections = [g \in Games |-> NoConn]
  /\ connGames = [c \in Conns |-> <<>>]
  /\ send = [c \in Conns |-> <<>>]
  /\ sendClosed = [c \in Conns |-> FALSE]
  /\ reader = [c \in Conns |-> "none"]
  /\ writer = [c \in Conns |-> "none"]
  /\ hub = Idle
  /\ panicked = NoPanic

RECURSIVE SumLen(_, _)
SumLen(subs, ts) ==
  IF ts = {} THEN 0
  ELSE LET t == CHOOSE x \in ts : TRUE IN Len(subs[t]) + SumLen(subs, ts \ {t})

CallSubscribe(type, h) ==
  /\ SumLen(subscribers, Topics) < MaxSubs
  /\ subscribers' = Subscribe(subscribers, type, h)
  /\ UNCHANGED <<clockVars, poolVars, sessVars, hubVars, tasks, lockVars, panicked>>

CallSubscribeAll(h) ==
  /\ SumLen(subscribers, Topics) < MaxSubs
  /\ subscribers' = SubscribeAll(subscribers, h)
  /\ UNCHANGED <<clockVars, poolVars, sessVars, hubVars, tasks, lockVars, panicked>>

CallPublish(type) ==
  /\ BagCardinality(tasks) < MaxTasks
  /\ tasks' = PublishTo(tasks, subscribers, type)
  /\ UNCHANGED <<clockVars, poolVars, sessVars, hubVars, subscribers, lockVars, panicked>>

HandlerReturn(t) ==
  /\ BagIn(t, tasks)
  /\ tasks' = Finish(tasks, t)
  /\ UNCHANGED <<clockVars, poolVars, sessVars, hubVars, subscribers, lockVars, panicked>>

NextPublisher ==
  \/ \E type \in EventTypes, h \in Handlers : CallSubscribe(type, h)
  \/ \E h \in Handlers : CallSubscribeAll(h)
  \/ \E type \in EventTypes : CallPublish(type)
  \/ \E t \in BagToSet(tasks) : HandlerReturn(t)

SpecPublisher == InitPublisher /\ [][NextPublisher]_vars

\* The program with peers that may stop reading their socket.
NextQueue ==
  \/ Next
  \/ \E c \in Conns : HubErrorBlocks(c)
  \/ HubSendResumes
  \/ \E c \in Conns : WriterStall(c)

FairQueue ==
  /\ Init /\ [][NextQueue]_vars
  /\ \A c \in Conns : WF_vars(ReaderStart(c))
  /\ \A c \in Conns : WF_vars(HubUnregister(c))
  /\ \A c \in Conns : WF_vars(WriterStep(c))
  /\ WF_vars(HubAssociate)
  /\ WF_vars(HubSendResumes)
  /\ WF_vars(\E t \in BagToSet(tasks) : HandlerLookup(t))
  /\ WF_vars(\E t \in BagToSet(tasks) : HandlerSend(t))
  /\ WF_vars(\E t \in BagToSet(tasks) : ManagerTask(t))

\* A caller of the pool leases an engine with GetEngine.
PoolGetEngine ==
  /\ Running
  /\ available # <<>>
  /\ available' = GetEngine(available).available
  /\ UNCHANGED <<subscribers, lockVars, clockVars, engine, shut, sessVars, hubVars, tasks, panicked>>

\* A caller of the pool calls ReturnEngine with an engine id.
PoolReturnEngine(id) ==
  /\ Running
  /\ available' = ReturnEngine(available, id)
  /\ UNCHANGED <<subscribers, lockVars, clockVars, engine, shut, sessVars, hubVars, tasks, panicked>>

\* The program with callers that use the pool's API directly.
NextPool ==
  \/ Next
  \/ PoolGetEngine
  \/ \E id \in Engines : PoolReturnEngine(id)

SpecPool == Init /\ [][NextPool]_vars

\* Sessions being created while their clocks tick: the hub, the goroutines
\* Manager.CreateSession starts, the handlers and the pumps.
NextOrder ==
  \/ \E c \in Conns : Connect(c)
  \/ \E c \in Conns : ReaderStart(c)
  \/ \E c \in Conns : HubCreateSession(c)
  \/ HubAssociate
  \/ \E g \in Games : SessionClockStart(g)
  \/ \E g \in Games : Running /\ TickerFire(g)
  \/ \E g \in Games : ForwardTick(g)
  \/ \E t \in BagToSet(tasks) : HandlerLookup(t)
  \/ \E t \in BagToSet(tasks) : HandlerSend(t)
  \/ \E t \in BagToSet(tasks) : ManagerTask(t)
  \/ \E c \in Conns : WriterStep(c)

SpecOrder == Init /\ [][NextOrder]_vars

\* A served session left alone: its clock runs, its ticker fires and its two
\* forwarders, the hub's handlers and the write pump do their work, while the
\* client sends nothing. An owner of the clock may stop it.
NextFlag ==
  \/ \E g \in games : Running /\ ClockStop(g)
  \/ \E g \in Games : SessionClockStart(g)
  \/ \E g \in Games : Running /\ TickerFire(g)
  \/ \E g \in Games : ForwardTick(g)
  \/ \E g \in Games : ForwardTimeup(g)
  \/ \E t \in BagToSet(tasks) : HandlerLookup(t)
  \/ \E t \in BagToSet(tasks) : HandlerSend(t)
  \/ \E c \in Conns : WriterStep(c)
  \/ Running /\ AdvanceTime

\* Every goroutine that can step eventually does, and time passes; nobody
\* has to call Stop.
FairFlag ==
  /\ InitMoves /\ [][NextFlag]_vars
  /\ \A g \in Games : WF_vars(SessionClockStart(g))
  /\ \A g \in Games : WF_vars(Running /\ TickerFire(g))
  /\ \A g \in Games : WF_vars(ForwardTick(g))
  /\ \A g \in Games : WF_vars(ForwardTimeup(g))
  /\ WF_vars(\E t \in BagToSet(tasks) : HandlerLookup(t))
  /\ WF_vars(\E t \in BagToSet(tasks) : HandlerSend(t))
  /\ \A c \in Conns : WF_vars(WriterStep(c))
  /\ WF_vars(Running /\ AdvanceTime)

\* A served session that is cancelled while its clock runs: the forwarders,
\* the handlers and the manager go on until they see the cancellation.
NextDone ==
  \/ \E g \in games : Running /\ ClockStop(g)
  \/ \E g \in Games : SessionClockStart(g)
  \/ \E g \in Games : Running /\ TickerFire(g)
  \/ \E g \in Games : ForwardTick(g)
  \/ \E g \in Games : ForwardTimeup(g)
  \/ \E g \in Games : ForwarderExit(g)
  \/ \E g \in Games : DirectTerminate(g)
  \/ \E t \in BagToSet(tasks) : HandlerLookup(t)
  \/ \E t \in BagToSet(tasks) : HandlerSend(t)
  \/ \E t \in BagToSet(tasks) : ManagerTask(t)
  \/ \E c \in Conns : WriterStep(c)
  \/ Running /\ AdvanceTime

\* A select whose done case is ready takes it sooner or later.
FairDone ==
  /\ InitMoves /\ [][NextDone]_vars
  /\ \A g \in Games : WF_vars(ForwarderExit(g))

\* The session's methods called concurrently while the session may be
\* terminated and the engine's output may end.
NextOver ==
  \/ NextMutex
  \/ \E g \in Games : DirectTerminate(g)
  \/ \E e \in Engines : EngineReadError(e)

\* Every caller that can step does, and a searching engine answers unless its
\* output ends.
FairOver ==
  /\ InitMoves /\ [][NextOver]_vars
  /\ \A k \in Callers :
       /\ WF_vars(MoveLock(k))
       /\ WF_vars(MoveBody(k))
       /\ WF_vars(SnapshotLock(k))
       /\ WF_vars(SnapshotCommands(k))
       /\ WF_vars(BestMoveReceived(k))
  /\ WF_vars(\E e \in Engines : (\E m \in Moves : EngineBestMove(e, m)) \/ EngineReadError(e))

\* ------------------------------------------------- the pool's shutdown
\* Pool.GetEngine on a pool that may have been shut down: the receive from
\* the closed channel returns at once, and no id is in the emptied map.
GetEngineOf(av, closed) ==
  IF closed
    THEN [ok |-> FALSE, id |-> 0, available |-> IF av = <<>> THEN av ELSE Tail(av)]
    ELSE GetEngine(av)

\* A caller of the pool calls GetEngine.
PoolGet ==
  /\ Running
  /\ available # <<>>
  /\ available' = GetEngineOf(available, shut).available
  /\ UNCHANGED <<subscribers, lockVars, clockVars, engine, shut, sessVars, hubVars, tasks, panicked>>

\* Pool.ReturnEngine up to RUnlock: the id is looked up in the engines map.
CallReturnEngine(c, id) ==
  /\ Running
  /\ calls[c] = NoCall
  /\ ~shut
  /\ calls' = [calls EXCEPT ![c] = [op |-> "ReturnEngine", pc |-> "send", game |-> id,
                                     move |-> ""]]
  /\ UNCHANGED <<clockVars, poolVars, sessVars, hubVars, tasks, subscribers, mu, rwVars, panicked>>

\* Pool.ReturnEngine after RUnlock: the select that offers the id to the
\* available channel; a send on a closed channel panics.
ReturnSend(c) ==
  /\ Running
  /\ calls[c].op = "ReturnEngine"
  /\ calls[c].pc = "send"
  /\ calls' = [calls EXCEPT ![c] = NoCall]
  /\ IF shut
       THEN /\ panicked' = PanicSendAvailable
            /\ UNCHANGED available
       ELSE /\ available' = ReturnEngine(available, calls[c].game)
            /\ UNCHANGED panicked
  /\ UNCHANGED <<clockVars, engine, shut, sessVars, hubVars, tasks, subscribers, mu, rwVars>>

\* UCIEngine.Close: close(quitChan), quit, Wait.
CloseEngine(e) == [e EXCEPT !.quitClosed = TRUE, !.searching = FALSE]

\* Pool.Shutdown: Close on every engine of the map, in the map's order, then
\* close(available) and a fresh map. Close on an engine that is closed
\* already panics after some of the others have been closed.
PoolShutdown ==
  LET known == IF shut THEN {} ELSE Engines
      closedAlready == {e \in known : engine[e].quitClosed}
  IN /\ Running
     /\ IF closedAlready # {}
          THEN /\ panicked' = PanicCloseQuit
               /\ \E S \in SUBSET (known \ closedAlready) :
                    engine' = [e \in Engines |->
                                 IF e \in S THEN CloseEngine(engine[e]) ELSE engine[e]]
               /\ UNCHANGED shut
          ELSE IF shut
            THEN /\ panicked' = PanicCloseAvailable
                 /\ UNCHANGED <<engine, shut>>
            ELSE /\ engine' = [e \in Engines |-> CloseEngine(engine[e])]
                 /\ shut' = TRUE
                 /\ UNCHANGED panicked
     /\ UNCHANGED <<clockVars, available, sessVars, hubVars, tasks, subscribers, lockVars>>

\* A served session and callers of the pool while the server stops: the
\* session may be terminated and the pool shut down in any order.
NextShutdown ==
  \/ \E g \in Games : DirectTerminate(g)
  \/ PoolShutdown
  \/ PoolGet
  \/ \E c \in Callers, id \in Engines : CallReturnEngine(c, id)
  \/ \E c \in Callers : ReturnSend(c)

SpecShutdown == InitMoves /\ [][NextShutdown]_vars

\* A session in which some number of moves has been played, whose callers
\* ask the engine for its move.
InitGo ==
  /\ InitChannels
  /\ \E n \in 0..MaxPlies : ServedAfter(n)

NextGo ==
  \/ \E k \in Callers, g \in Games : CallProcessEngineMove(k, g)
  \/ \E k \in Callers : SnapshotLock(k)
  \/ \E k \in Callers : SnapshotCommands(k)
  \/ \E e \in Engines, m \in Moves : EngineBestMove(e, m)
  \/ \E k \in Callers : BestMoveReceived(k)
  \/ \E k \in Callers : MoveLock(k)
  \/ \E k \in Callers : MoveBody(k)

SpecGo == InitGo /\ [][NextGo]_vars

\* ------------------------------------------------ session and pool claims
LiveSessions == {g \in games : ~session[g].doneClosed}
LeasedEngines == {session[g].Engine : g \in LiveSessions}
InAvailable(e) == \E i \in 1..Len(available) : available[i] = e
Unregistered(c) == sendClosed[c]

\* C1: no call of Terminate closes a done channel that is already closed,
\* whoever makes the call: a caller, the CONNECTION_CLOSED handler or the
\* GAME_TERMINATED handler.
C1_DoneClosedAtMostOnce == panicked # PanicCloseDone

\* C2: the ids on the available channel plus the engines leased to live
\* sessions number the pool's capacity.
C2_PoolConservation == Len(available) + Cardinality(LeasedEngines) = NumEngines

\* C3: no two sessions that have not been terminated hold the same engine.
C3_ExclusiveLease ==
  \A g1 \in LiveSessions, g2 \in LiveSessions :
    g1 # g2 => session[g1].Engine # session[g2].Engine

\* Two sessions hold engines at once, the second lease made while the first
\* was out.
C3_TwoLeases == \E g1 \in LiveSessions, g2 \in LiveSessions : g1 # g2

\* C4: the engine of a terminated session is back on the available channel.
C4_EngineReturnedOnTerminate ==
  \A g \in games : session[g].doneClosed => InAvailable(session[g].Engine)

\* C5: no frame is sent on the outbound queue of a connection after the
\* queue was closed by unregister.
C5_NoSendAfterUnregister == panicked # PanicSendClosed

\* C6: once a connection is unregistered, every session it created is
\* eventually terminated (in a process that is still running).
C6_SessionsTerminatedOnClose ==
  \A c \in Conns, g \in Games :
    (Unregistered(c) /\ g \in games /\ session[g].ConnectionID = c)
      ~> ((g \in games /\ session[g].doneClosed) \/ ~Running)

\* C7: once its owning connection is unregistered and the session is
\* terminated, the session eventually leaves the repository.
C7_TerminatedSessionRemoved ==
  \A c \in Conns, g \in Games :
    (Unregistered(c) /\ g \in games /\ session[g].ConnectionID = c
       /\ session[g].doneClosed)
      ~> ~GetGame(games, g)

\* C8: a MAKE_MOVE whose move the rules library rejects leaves the position,
\* the clock's active color and both stored times as they were, is answered
\* with an ERROR frame, and does not go on to ProcessEngineMove.
C8_RejectedMoveChangesNothing ==
  [][\A c \in Conns, g \in Games, m \in Moves :
       (HubMakeMove(c, g, m) /\ GetGame(games, g) /\ ~LegalMove(m)) =>
         /\ session'[g].moves = session[g].moves
         /\ session'[g].turn = session[g].turn
         /\ clock'[g].activeColor = clock[g].activeColor
         /\ clock'[g].whiteTimeMs = clock[g].whiteTimeMs
         /\ clock'[g].blackTimeMs = clock[g].blackTimeMs
         /\ hub'.pc = "idle"
         /\ send'[c] = Append(send[c], Frame("ERROR", NoGame))]_vars

\* ------------------------------------------------------------ clock claims
\* The stored remaining time a Switch should leave for the side that was
\* active: previous remaining - elapsed + that side's configured increment.
SwitchExpected(c, t) ==
  LET elapsed == IF c.isRunning THEN t - c.startTime ELSE 0
  IN IF c.activeColor = White
       THEN [White |-> c.whiteTimeMs - elapsed + c.whiteIncrement, Black |-> c.blackTimeMs]
       ELSE [White |-> c.whiteTimeMs, Black |-> c.blackTimeMs - elapsed + c.blackIncrement]

\* C9: every Switch under increment timing leaves the side that was active
\* with its previous stored remaining - elapsed + its increment, and leaves
\* the other side's stored remaining unchanged.
C9_SwitchAddsIncrement ==
  [][\A k \in Clocks :
       (ClockSwitch(k) /\ clock[k].timingMethod = IncrementTiming) =>
         /\ clock'[k].whiteTimeMs = SwitchExpected(clock[k], now).White
         /\ clock'[k].blackTimeMs = SwitchExpected(clock[k], now).Black]_vars

\* C10: at most one time-up event is ever sent on a clock's timeup channel.
C10_AtMostOneTimeup == \A k \in Clocks : timeupSent[k] <= 1

\* ------------------------------------------------------- flag-fall claims
ActiveTimeMs(c) == IF c.activeColor = White THEN c.whiteTimeMs ELSE c.blackTimeMs
FullyElapsed(g) ==
  /\ g \in games
  /\ clock[g].isRunning
  /\ now - clock[g].startTime >= ActiveTimeMs(clock[g])
TimeUpPublished(g) ==
  \E t \in BagToSet(tasks) : t.type = EventTimeUp /\ t.game = g

\* C11: once the active side's time of a running clock has fully elapsed,
\* TIME_UP is eventually published for the session, unless a Stop has
\* stopped the clock in between (no move is made).
C11_FlagFallPublished ==
  \A g \in Games :
    FullyElapsed(g) ~> (TimeUpPublished(g) \/ (g \in games /\ ~clock[g].isRunning))

\* ------------------------------------------------------------- hub claims
\* C12: an unregister that is pending while the hub waits in
\* ProcessEngineMove for the engine's bestmove is eventually processed.
C12_HubResponsiveWhileThinking ==
  \A c \in Conns :
    (hub.pc = "wait" /\ reader[c] = "unreg") ~> (reader[c] = "done")

Enqueued(c, f) == \E i \in 1..Len(send[c]) : send[c][i] = f
Open(c) == reader[c] = "loop" /\ writer[c] = "run"

\* C13: after a CREATE_SESSION has succeeded, a GAME_CREATED frame for the
\* new game is eventually on the connection's outbound queue, unless the
\* connection is closed (or the process has stopped) first.
C13_GameCreatedDelivered ==
  \A c \in Conns, g \in Games :
    (hub.pc = "associate" /\ hub.conn = c /\ hub.game = g)
      ~> (Enqueued(c, Frame("GAME_CREATED", g)) \/ ~Open(c) \/ ~Running)

HandlerPending(type, g) ==
  \E t \in BagToSet(tasks) : t.type = type /\ t.game = g

\* C14: a CLOCK_UPDATE frame of a game is on a connection's outbound queue
\* only once the game's GAME_CREATED frame has been enqueued: never while
\* the GAME_CREATED handler of that game has yet to send.
C14_GameCreatedBeforeClockUpdate ==
  \A c \in Conns, g \in Games :
    Enqueued(c, Frame("CLOCK_UPDATE", g)) => ~HandlerPending(EventGameCreated, g)

\* C15: for every connection, the game ids listed in connGames are exactly
\* the game ids that gameConnections maps to that connection.
C15_AssociationsAgree ==
  \A c \in Conns :
    Range(connGames[c]) = {g \in Games : gameConnections[g] = c}

\* A connection owns two associated games.
C15_TwoAssociated == \E c \in Conns : Len(connGames[c]) = 2

\* ------------------------------------------------------------ pool claims
\* C16: no engine id occurs more than once in the available channel.
C16_NoDuplicateAvailable ==
  \A i \in 1..Len(available), j \in 1..Len(available) :
    i # j => available[i] # available[j]

\* ---------------------------------------------------------- status claims
\* C17: a session is pending when created and no longer pending once a
\* ProcessMove of it has succeeded (a move is recorded in its position).
C17_ActiveAfterFirstMove ==
  \A g \in games :
    /\ session[g].moves = 0 => session[g].Status = StatusPending
    /\ session[g].moves > 0 => session[g].Status # StatusPending

\* C18: a session whose Terminate has run or whose clock has flagged has
\* status completed.
C18_CompletedWhenOver ==
  \A g \in games :
    (session[g].doneClosed \/ timeupSent[g] > 0) =>
      session[g].Status = StatusCompleted

\* ----------------------------------------------------------- queue claims
\* C19: a hub that is blocked in SendJSON on a full queue whose writer no
\* longer drains it eventually proceeds.
C19_FullQueueSenderProceeds ==
  \A c \in Conns :
    (hub.pc = "send" /\ hub.conn = c /\ Len(send[c]) = SendQueue
       /\ writer[c] = "stalled")
      ~> (hub.pc = "idle" \/ ~Running)

ClosedHandlerPending(c) ==
  \E t \in BagToSet(tasks) : t.type = EventConnectionClosed /\ t.conn = c

\* C20: CONNECTION_CLOSED is published for a connection only once its
\* outbound queue has been closed by unregister, and then once: a handler of
\* the event never runs while the queue is open, and never two at a time.
C20_ClosedPublishedOnDestroy ==
  \A c \in Conns :
    ClosedHandlerPending(c) =>
      /\ sendClosed[c]
      /\ tasks[Task(EventConnectionClosed, NoGame, c)] = 1

\* ------------------------------------------------------ publisher claims
\* C21: a Publish starts one goroutine for every handler subscribed to the
\* event's type and one for every handler registered with SubscribeAll.
C21_WildcardHandlersDispatched ==
  [][\A type \in EventTypes :
       CallPublish(type) =>
         BagCardinality(tasks') =
           BagCardinality(tasks) + Len(subscribers[type]) + Len(subscribers[Wildcard])]_vars

\* C22: a CREATE_SESSION handled while every engine is leased enqueues one
\* ERROR frame for the requester and changes nothing else: no session is saved,
\* no association is made, and the available channel and the leases stay.
C22_ExhaustedPoolOnlyError ==
  [][\A c \in Conns :
       (HubCreateSession(c) /\ available = <<>>) =>
         /\ send' = [send EXCEPT ![c] = Append(@, Frame("ERROR", NoGame))]
         /\ UNCHANGED <<poolVars, sessVars, tasks, connections, gameConnections,
                        connGames, sendClosed, hub, panicked>>]_vars

\* Every engine is leased and a requester holds an ERROR frame.
C22_ErrorWhileExhausted ==
  /\ available = <<>>
  /\ LeasedEngines = Engines
  /\ \E c \in Conns : Enqueued(c, Frame("ERROR", NoGame))

\* C23: a MAKE_MOVE whose game id is not in the repository, or does not parse,
\* enqueues exactly one ERROR frame for the sender and has no other effect.
C23_UnknownGameOnlyError ==
  [][\A c \in Conns, g \in Games \cup {NoGame}, m \in Moves :
       (HubMakeMove(c, g, m) /\ ~GetGame(games, g)) =>
         /\ send' = [send EXCEPT ![c] = Append(@, Frame("ERROR", NoGame))]
         /\ UNCHANGED <<clockVars, poolVars, sessVars, tasks, connections,
                        gameConnections, connGames, sendClosed, hub, panicked>>]_vars

\* The sender of a MAKE_MOVE for an unknown game holds the ERROR frame while
\* the hub is idle again and the stored game has seen no move.
C23_ErrorForUnknownGame ==
  /\ hub = Idle
  /\ \E c \in Conns : Enqueued(c, Frame("ERROR", NoGame))
  /\ \A g \in games : session[g].moves = 0

\* C24: a frame with an unknown event name, or with a payload that does not
\* decode, enqueues exactly one ERROR frame for the sender and leaves the hub
\* maps, the repository and the pool unchanged.
C24_BadFrameOnlyError ==
  [][\A c \in Conns :
       HubBadFrame(c) =>
         /\ send' = [send EXCEPT ![c] = Append(@, Frame("ERROR", NoGame))]
         /\ UNCHANGED <<connections, gameConnections, connGames, games, session,
                        nextGame, available, engine>>]_vars

\* An ERROR frame is held while no session exists and no engine is leased:
\* it answers a frame that was not understood.
C24_ErrorForBadFrame ==
  /\ games = {}
  /\ nextGame = 1
  /\ available = InitialAvailable
  /\ \E c \in Conns : Enqueued(c, Frame("ERROR", NoGame))

\* C25: in every clock state reached by Start, Stop and Switch, at every
\* time, GetRemainingTime returns two values that are not negative.
C25_RemainingTimeNotNegative ==
  \A k \in Clocks :
    /\ GetRemainingTime(clock[k], now).White >= 0
    /\ GetRemainingTime(clock[k], now).Black >= 0

\* A running clock whose active side has used more than it had, read before
\* any Stop or Switch has charged the elapsed time.
C25_OverrunWhileRunning ==
  \E k \in Clocks :
    /\ clock[k].isRunning
    /\ clock[k].moveCount > 0
    /\ now - clock[k].startTime > ActiveTimeMs(clock[k])

\* C26: a ProcessMove that leaves the position terminal publishes GAME_OVER
\* for the game and sets the session's status to completed.
C26_GameOverOnTerminalMove ==
  [][\A g \in Games :
       (g \in games /\ session[g].outcome = NoOutcome
          /\ session'[g].outcome # NoOutcome) =>
         /\ session'[g].Status = StatusCompleted
         /\ \E t \in BagToSet(tasks') : t.type = "GAME_OVER" /\ t.game = g]_vars

\* C27: CONNECTED is the first frame enqueued on every connection's queue.
\* Before the connection is accepted its queue is empty, the step that
\* accepts it enqueues CONNECTED on the empty queue, and a connection is
\* accepted once.
C27_ConnectedFirst ==
  [][\A c \in Conns :
       /\ reader[c] = "none" => send[c] = <<>>
       /\ (reader[c] = "none" /\ (send'[c] # send[c] \/ reader'[c] # "none")) =>
            /\ send'[c] = <<Frame("CONNECTED", NoGame)>>
            /\ reader'[c] # "none"
       /\ reader[c] # "none" => reader'[c] # "none"]_vars

\* A queue that holds CONNECTED followed by another frame.
C27_ConnectedThenOther ==
  \E c \in Conns :
    /\ Len(send[c]) = 2
    /\ send[c][1] = Frame("CONNECTED", NoGame)
    /\ send[c][2] # Frame("CONNECTED", NoGame)

C30_AtMostOneTicker ==
  \A k \in Clocks : tickers[k] <= 1

\* C29: the clock's locking is free of deadlock although tickRoutine takes
\* the read lock and GetRemainingTime takes it again: whenever a writer
\* (Start, Stop or Switch) has asked for the lock, the writer can acquire it or
\* a tickRoutine that holds a read lock can go on.
C29_ClockLockNoDeadlock ==
  \A k \in Clocks :
    (\E c \in Callers : calls[c].pc = "announced" /\ calls[c].game = k) =>
      \/ rw[k].r = 0
      \/ \E n \in 1..MaxStarts :
           \/ tpc[k][n].pc = "inner"
           \/ tpc[k][n].pc = "outer" /\ (~clock[k].isRunning \/ RLockReady(k))

\* C31: while the clock is not running, no ClockTick is sent on the tick
\* channel.
C31_NoTickWhileStopped ==
  [][\A k \in Clocks :
       ~clock[k].isRunning => Len(tickChan'[k]) <= Len(tickChan[k])]_vars

\* The handler goroutines of one event type and game that have not returned.
TasksOf(b, type, g) ==
  LET S == {t \in BagToSet(b) : t.type = type /\ t.game = g}
  IN BagCardinality([t \in S |-> b[t]])

\* C32: after a session's done channel is closed, its tick forwarder and its
\* timeout forwarder both exit, and an exited forwarder publishes nothing: no
\* CLOCK_UPDATED after the tick forwarder has returned, no TIME_UP after the
\* timeout forwarder has returned.
C32_ForwardersExitAfterDone ==
  /\ \A g \in Games :
       (g \in games /\ session[g].doneClosed)
         ~> (~Running \/ (~fwd[g].tick /\ ~fwd[g].timeout))
  /\ [][\A g \in Games :
         /\ ~fwd[g].tick =>
              TasksOf(tasks', EventClockUpdated, g) <= TasksOf(tasks, EventClockUpdated, g)
         /\ ~fwd[g].timeout =>
              TasksOf(tasks', EventTimeUp, g) <= TasksOf(tasks, EventTimeUp, g)]_vars

\* Both forwarders of a cancelled session have returned while a tick and a
\* time-up are still waiting in the clock's channels.
C32_ForwardersGone ==
  \E g \in games :
    /\ Running
    /\ session[g].doneClosed
    /\ ~fwd[g].tick /\ ~fwd[g].timeout
    /\ tickChan[g] # <<>>
    /\ timeupChan[g] # <<>>

\* C33: after Terminate the session's clock is not running, so that its
\* tickRoutine exits at its next tick.
C33_ClockStoppedAfterTerminate ==
  \A g \in games : session[g].doneClosed => ~clock[g].isRunning

C35_ClockFollowsPosition ==
  \A g \in games : clock[g].activeColor = session[g].turn

\* C36: a flag is permanent: once IsTimeUp(color) is true for a clock it is
\* true for that color after every later Start, Stop and Switch.
C36_FlagPermanent ==
  [][\A k \in Clocks, color \in {White, Black} :
       IsTimeUp(clock[k], color) => IsTimeUp(clock'[k], color)]_vars

\* C37: an engine's Close runs at most once, across Terminate and
\* Shutdown: the engine's quit channel is never closed twice.
C37_EngineClosedOnce ==
  panicked # PanicCloseQuit

\* C40: ReturnEngine never sends on the closed available channel, and after
\* Shutdown GetEngine returns an error, not an engine.
C40_ReturnAndGetAfterShutdown ==
  /\ panicked # PanicSendAvailable
  /\ shut => ~GetEngineOf(available, shut).ok

\* C38: for every number m of moves played, the movestogo value of the go
\* command is max(1, 40 - floor(m / 2)), so it is never below 1.
C38_MovesToGoAtLeastOne ==
  [][\A k \in Callers :
       (SnapshotCommands(k) /\ calls'[k].pc = "wait") =>
         LET g == calls[k].game
         IN engine'[session[g].Engine].goSent = <<MovesToGoClamped(session[g].moves)>>]_vars

\* C39: ENGINE_MOVED is published only after the engine's best move has been
\* applied by ProcessMove: a step that publishes it for a game records one
\* more move in that game's position.
C39_EngineMovedAfterApplied ==
  [][\A g \in Games :
       (g \in games
          /\ TasksOf(tasks', EventEngineMoved, g) > TasksOf(tasks, EventEngineMoved, g)) =>
         session'[g].moves = session[g].moves + 1]_vars

====
